---- MODULE Spec2Model ----
(***************************************************************************)
(* Model of the reconciliation pipeline of reconcile.py and                *)
(* reconciliation_uploader.py: Cluster objects on a heap, the              *)
(* tracking -> cluster index, the merge over the carrier's co-shipment     *)
(* tuples, the cost folding, the import of the sheet snapshot and the      *)
(* final sort.  Costs are integers (the code uses floats).                 *)
(***************************************************************************)
EXTENDS Integers, Sequences, FiniteSets, TLC

\* ---------------------------------------------------------------- bounds
NumTrackings == 3   \* the tracking numbers are 1..NumTrackings
NumOrders == 4      \* the order ids are 1..NumOrders, one more than the trackings
MaxTuples == 2      \* the dict of co-shipment tuples holds up to MaxTuples keys
MaxCost == 2        \* the largest cost and adjustment of the sheet
MaxSnapshot == 2    \* the sheet holds up to MaxSnapshot rows

Trackings == 1..NumTrackings
Orders == 1..NumOrders

VARIABLES
  clusters,              \* the Cluster objects: id -> record of fields
  all_clusters,          \* reconcile_new's list all_clusters (ids, in list order)
  clusters_by_tracking,  \* the dict tracking -> cluster id
  trackings_to_cost,     \* the dict tuple -> cost, in iteration (insertion) order
  po_to_cost,            \* the dict purchase order -> cost
  downloaded_clusters,   \* the sheet snapshot, in row order
  tracking_to_po,        \* the dict tracking -> purchase order (USA scrape)
  args_groups,           \* args.groups; {} when the option is absent
  order_cost,            \* OrderInfoRetriever: order -> cost
  failing_orders,        \* the orders whose get_order_info raises
  pc,                    \* the statement of reconcile_new to run next
  ti,                    \* merge_by_trackings_tuples: index of the next tuple
  run,                   \* which run of merge_by_trackings_tuples this is
  absorbed,              \* history: the ids passed as other to merge_with
  initial                \* history: the Cluster objects as Init left them

vars == <<clusters, all_clusters, clusters_by_tracking, trackings_to_cost,
          po_to_cost, downloaded_clusters, tracking_to_po, args_groups,
          order_cost, failing_orders, pc, ti, run, absorbed, initial>>

inputs == <<trackings_to_cost, po_to_cost, downloaded_clusters, tracking_to_po,
            args_groups, order_cost, failing_orders, initial>>

\* ---------------------------------------------------------------- helpers
Range(f) == {f[x] : x \in DOMAIN f}

Elems(s) == {s[i] : i \in 1..Len(s)}

RECURSIVE SumOver(_, _)
SumOver(f, S) ==
  IF S = {} THEN 0
  ELSE LET x == CHOOSE y \in S : TRUE IN f[x] + SumOver(f, S \ {x})

RECURSIVE UnionAll(_)
UnionAll(s) ==
  IF s = <<>> THEN {} ELSE Head(s) \cup UnionAll(Tail(s))

RECURSIVE SumSeq(_)
SumSeq(s) ==
  IF s = <<>> THEN 0 ELSE Head(s) + SumSeq(Tail(s))

\* ------------------------------------------- reconciliation_uploader.py
\* a total_diff that forgets the manual override
total_diff_unsuppressed(cluster) ==
  cluster.tracked_cost + cluster.adjustment - cluster.expected_cost

\* total_diff(cluster)
total_diff(cluster) ==
  IF cluster.manual_override THEN 0
  ELSE cluster.tracked_cost + cluster.adjustment - cluster.expected_cost

\* a compare whose first rule answers 1
compare_verified_positive(cluster_one, cluster_two) ==
  IF cluster_two.verified THEN 1
  ELSE IF cluster_one.verified /\ cluster_two.below_cost THEN 0
  ELSE IF ~cluster_one.verified /\ cluster_two.below_cost THEN -1
  ELSE IF total_diff(cluster_one) < total_diff(cluster_two) THEN 1
  ELSE 0

\* a compare that tests below_cost on the first cluster
compare_first_below_cost(cluster_one, cluster_two) ==
  IF cluster_two.verified THEN -1
  ELSE IF cluster_one.verified /\ cluster_one.below_cost THEN 0
  ELSE IF ~cluster_one.verified /\ cluster_one.below_cost THEN -1
  ELSE IF total_diff(cluster_one) < total_diff(cluster_two) THEN 1
  ELSE 0

\* a compare whose last rule also answers 1 for equal diffs
compare_diff_or_equal(cluster_one, cluster_two) ==
  IF cluster_two.verified THEN -1
  ELSE IF cluster_one.verified /\ cluster_two.below_cost THEN 0
  ELSE IF ~cluster_one.verified /\ cluster_two.below_cost THEN -1
  ELSE IF total_diff(cluster_one) <= total_diff(cluster_two) THEN 1
  ELSE 0

\* compare(cluster_one, cluster_two)
compare(cluster_one, cluster_two) ==
  IF cluster_two.verified THEN -1
  ELSE IF cluster_one.verified /\ cluster_two.below_cost THEN 0
  ELSE IF ~cluster_one.verified /\ cluster_two.below_cost THEN -1
  ELSE IF total_diff(cluster_one) < total_diff(cluster_two) THEN 1
  ELSE 0

\* ReconciliationUploader.find_candidate_downloads: the snapshot rows whose
\* trackings intersect the cluster's, in row order
RECURSIVE find_candidate_downloads(_, _)
find_candidate_downloads(cluster, downloaded) ==
  IF downloaded = <<>> THEN <<>>
  ELSE (IF Head(downloaded).trackings \cap cluster.trackings # {}
        THEN <<Head(downloaded)>> ELSE <<>>)
       \o find_candidate_downloads(cluster, Tail(downloaded))

\* str.strip(): notes are sequences of characters
Whitespace == {" "}

RECURSIVE lstrip(_)
lstrip(s) ==
  IF s # <<>> /\ Head(s) \in Whitespace THEN lstrip(Tail(s)) ELSE s

RECURSIVE rstrip(_)
rstrip(s) ==
  IF s # <<>> /\ s[Len(s)] \in Whitespace THEN rstrip(SubSeq(s, 1, Len(s) - 1)) ELSE s

strip(s) == rstrip(lstrip(s))

\* "; ".join(list)
Separator == <<";", " ">>

RECURSIVE join(_)
join(list) ==
  IF list = <<>> THEN <<>>
  ELSE IF Len(list) = 1 THEN Head(list)
  ELSE Head(list) \o Separator \o join(Tail(list))

\* the body of override_pos_and_costs's loop, for one cluster
override_one(cluster, downloaded) ==
  LET candidate_downloads == find_candidate_downloads(cluster, downloaded)
      n == Len(candidate_downloads)
  IN [cluster EXCEPT
        !.purchase_orders =
          UnionAll([i \in 1..n |-> candidate_downloads[i].purchase_orders]),
        !.non_reimbursed_trackings =
          UnionAll([i \in 1..n |-> candidate_downloads[i].non_reimbursed_trackings]),
        !.tracked_cost =
          SumSeq([i \in 1..n |-> candidate_downloads[i].tracked_cost])]

\* an import of the flags that compares the trackings but not the orders
import_flags_by_trackings(cluster, candidate_downloads) ==
  IF Len(candidate_downloads) = 1
  THEN LET sheet_cluster == candidate_downloads[1]
       IN IF sheet_cluster.trackings = cluster.trackings
          THEN [cluster EXCEPT !.manual_override = sheet_cluster.manual_override,
                               !.verified = sheet_cluster.verified,
                               !.below_cost = sheet_cluster.below_cost]
          ELSE cluster
  ELSE cluster

\* the flags part of fill_adjustments's loop body (lines 319-325)
import_flags(cluster, candidate_downloads) ==
  IF Len(candidate_downloads) = 1
  THEN LET sheet_cluster == candidate_downloads[1]
       IN IF sheet_cluster.trackings = cluster.trackings
             /\ sheet_cluster.orders = cluster.orders
          THEN [cluster EXCEPT !.manual_override = sheet_cluster.manual_override,
                               !.verified = sheet_cluster.verified,
                               !.below_cost = sheet_cluster.below_cost]
          ELSE cluster
  ELSE cluster

\* an import that joins every candidate's notes, blank ones too
import_adjustment_all_notes(cluster, candidate_downloads) ==
  LET n == Len(candidate_downloads)
  IN [cluster EXCEPT
        !.adjustment = SumSeq([i \in 1..n |-> candidate_downloads[i].adjustment]),
        !.notes = join([i \in 1..n |-> candidate_downloads[i].notes])]

\* the adjustment and notes part of fill_adjustments's loop body (lines 312-314)
import_adjustment(cluster, candidate_downloads) ==
  LET n == Len(candidate_downloads)
      kept == SelectSeq(candidate_downloads, LAMBDA c : strip(c.notes) # <<>>)
  IN [cluster EXCEPT
        !.adjustment = SumSeq([i \in 1..n |-> candidate_downloads[i].adjustment]),
        !.notes = join([i \in 1..Len(kept) |-> kept[i].notes])]

\* the body of fill_adjustments's loop, for one cluster
adjust_one(cluster, downloaded) ==
  LET candidate_downloads == find_candidate_downloads(cluster, downloaded)
  IN import_flags(import_adjustment(cluster, candidate_downloads), candidate_downloads)

\* ReconciliationUploader.fill_adjustments: the loop over all_clusters
RECURSIVE fill_adjustments(_, _, _)
fill_adjustments(heap, list, downloaded) ==
  IF list = <<>> THEN heap
  ELSE fill_adjustments(
         [heap EXCEPT ![Head(list)] = adjust_one(heap[Head(list)], downloaded)],
         Tail(list), downloaded)

\* ReconciliationUploader.override_pos_and_costs: the loop over all_clusters
RECURSIVE override_pos_and_costs(_, _, _)
override_pos_and_costs(heap, list, downloaded) ==
  IF list = <<>> THEN heap
  ELSE override_pos_and_costs(
         [heap EXCEPT ![Head(list)] = override_one(heap[Head(list)], downloaded)],
         Tail(list), downloaded)

\* cmp_to_key(compare): K(a) < K(b) is compare(a, b) < 0
ISLT(heap, a, b) == compare(heap[a], heap[b]) < 0

\* list.sort's count_run: the length of the run starting the list, and
\* whether it is a (strictly) descending one
RECURSIVE run_length(_, _, _, _)
run_length(heap, list, n, descending) ==
  IF n >= Len(list) THEN n
  ELSE IF ISLT(heap, list[n + 1], list[n]) = descending
       THEN run_length(heap, list, n + 1, descending)
       ELSE n

Reverse(s) == [i \in 1..Len(s) |-> s[Len(s) + 1 - i]]

\* list.sort's binarysort: the insertion point of pivot in list[l+1..r]
RECURSIVE insertion_point(_, _, _, _, _)
insertion_point(heap, list, pivot, l, r) ==
  IF l >= r THEN l
  ELSE LET p == l + ((r - l) \div 2)
       IN IF ISLT(heap, pivot, list[p + 1])
          THEN insertion_point(heap, list, pivot, l, p)
          ELSE insertion_point(heap, list, pivot, p + 1, r)

RECURSIVE binarysort(_, _, _)
binarysort(heap, list, start) ==
  IF start >= Len(list) THEN list
  ELSE LET pivot == list[start + 1]
           l == insertion_point(heap, list, pivot, 0, start)
           moved == SubSeq(list, 1, l) \o <<pivot>> \o SubSeq(list, l + 1, start)
                    \o SubSeq(list, start + 2, Len(list))
       IN binarysort(heap, moved, start + 1)

\* all_clusters.sort(key=cmp_to_key(compare)) for a list below 64 entries
sort(heap, list) ==
  IF Len(list) < 2 THEN list
  ELSE LET descending == ISLT(heap, list[2], list[1])
           n == run_length(heap, list, 2, descending)
           runs == IF descending
                   THEN Reverse(SubSeq(list, 1, n)) \o SubSeq(list, n + 1, Len(list))
                   ELSE list
       IN binarysort(heap, runs, n)

\* ------------------------------------------------------------ reconcile.py
\* a lookup failure that throws the partial sum away
add_order_cost_reset(cluster, order_id, costs, failing) ==
  IF order_id \in failing THEN [cluster EXCEPT !.expected_cost = 0]
  ELSE [cluster EXCEPT !.expected_cost = @ + costs[order_id]]

\* fill_costs, lines 27-35: one order; when get_order_info raises, the except
\* clause prints and continues with the next order
add_order_cost(cluster, order_id, costs, failing) ==
  IF order_id \in failing THEN cluster
  ELSE [cluster EXCEPT !.expected_cost = @ + costs[order_id]]

\* fill_costs, line 26: the loop over cluster.orders
RECURSIVE add_order_costs(_, _, _, _)
add_order_costs(cluster, orders, costs, failing) ==
  IF orders = {} THEN cluster
  ELSE LET order_id == CHOOSE o \in orders : TRUE
       IN add_order_costs(add_order_cost(cluster, order_id, costs, failing),
                          orders \ {order_id}, costs, failing)

\* fill_costs: the loop body for one cluster (lines 25-35)
expected_cost_of(cluster, costs, failing) ==
  add_order_costs([cluster EXCEPT !.expected_cost = 0], cluster.orders, costs, failing)

\* fill_costs: the loop over all_clusters
RECURSIVE fill_costs(_, _, _, _)
fill_costs(heap, list, costs, failing) ==
  IF list = <<>> THEN heap
  ELSE fill_costs(
         [heap EXCEPT ![Head(list)] = expected_cost_of(heap[Head(list)], costs, failing)],
         Tail(list), costs, failing)

\* map_clusters_by_tracking: a later cluster of the list overwrites an earlier one
map_clusters_by_tracking(heap, list) ==
  LET owners(t) == {i \in 1..Len(list) : t \in heap[list[i]].trackings}
      keys == UNION {heap[list[i]].trackings : i \in 1..Len(list)}
  IN [t \in keys |-> list[CHOOSE i \in owners(t) : \A j \in owners(t) : j <= i]]

\* Cluster.merge_with(other): the target takes the union of the identity sets
merge_with(self, other) ==
  [self EXCEPT !.trackings = @ \cup other.trackings,
               !.orders = @ \cup other.orders,
               !.purchase_orders = @ \cup other.purchase_orders]

\* a cluster_list built from the last tracking of the tuple to the first
RECURSIVE cluster_list_reversed(_, _)
cluster_list_reversed(by_tracking, trackings_tuple) ==
  IF trackings_tuple = <<>> THEN <<>>
  ELSE cluster_list_reversed(by_tracking, Tail(trackings_tuple))
       \o (IF Head(trackings_tuple) \in DOMAIN by_tracking
           THEN <<by_tracking[Head(trackings_tuple)]>> ELSE <<>>)

\* merge_by_trackings_tuples, lines 94-98: the clusters the tuple resolves to
RECURSIVE cluster_list(_, _)
cluster_list(by_tracking, trackings_tuple) ==
  IF trackings_tuple = <<>> THEN <<>>
  ELSE (IF Head(trackings_tuple) \in DOMAIN by_tracking
        THEN <<by_tracking[Head(trackings_tuple)]>> ELSE <<>>)
       \o cluster_list(by_tracking, Tail(trackings_tuple))

\* lines 107-108: the test that skips merge_with
already_part(heap, first_cluster, other_cluster) ==
  /\ heap[other_cluster].trackings \subseteq heap[first_cluster].trackings
  /\ heap[other_cluster].orders \subseteq heap[first_cluster].orders

\* a merge that assigns the other cluster to the target instead of uniting them
RECURSIVE merge_others_assign(_, _, _)
merge_others_assign(heap, first_cluster, others) ==
  IF others = <<>> THEN heap
  ELSE merge_others_assign(
         IF already_part(heap, first_cluster, Head(others)) THEN heap
         ELSE [heap EXCEPT ![first_cluster] = heap[Head(others)]],
         first_cluster, Tail(others))

\* lines 106-109: the loop over cluster_list[1:]
RECURSIVE merge_others(_, _, _)
merge_others(heap, first_cluster, others) ==
  IF others = <<>> THEN heap
  ELSE merge_others(
         IF already_part(heap, first_cluster, Head(others)) THEN heap
         ELSE [heap EXCEPT ![first_cluster] = merge_with(@, heap[Head(others)])],
         first_cluster, Tail(others))

\* the ids that the loop of lines 106-109 passes to merge_with as other
RECURSIVE merged_in(_, _, _)
merged_in(heap, first_cluster, others) ==
  IF others = <<>> THEN {}
  ELSE IF already_part(heap, first_cluster, Head(others))
       THEN merged_in(heap, first_cluster, Tail(others))
       ELSE {Head(others)}
            \cup merged_in([heap EXCEPT ![first_cluster] = merge_with(@, heap[Head(others)])],
                           first_cluster, Tail(others))

\* lines 110-111: every tracking of the tuple is pointed at first_cluster
repoint(by_tracking, trackings_tuple, first_cluster) ==
  [t \in DOMAIN by_tracking \cup Elems(trackings_tuple) |->
     IF t \in Elems(trackings_tuple) THEN first_cluster ELSE by_tracking[t]]

\* a skip that looks at the first tracking of the tuple only
skipped_first_unknown(by_tracking, trackings_tuple) ==
  \/ Len(trackings_tuple) = 1
  \/ trackings_tuple[1] \notin DOMAIN by_tracking

\* one iteration of merge_by_trackings_tuples's loop: is the tuple skipped
skipped(by_tracking, trackings_tuple) ==
  \/ Len(trackings_tuple) = 1
  \/ cluster_list(by_tracking, trackings_tuple) = <<>>

\* fill_costs_new and fill_purchase_orders: the --groups filter
filtered_out(cluster, groups) ==
  groups # {} /\ cluster.group \notin groups

\* fill_costs_new, lines 115-121: the reset, for the clusters that are values
reset_costs(heap, by_tracking, groups) ==
  [c \in DOMAIN heap |->
     IF c \in Range(by_tracking) /\ ~filtered_out(heap[c], groups)
     THEN [heap[c] EXCEPT !.non_reimbursed_trackings = heap[c].trackings,
                          !.tracked_cost = 0]
     ELSE heap[c]]

\* a tuple loop that credits the cluster of the tuple's last tracking
RECURSIVE attribute_costs_to_last(_, _, _)
attribute_costs_to_last(heap, by_tracking, tuples) ==
  IF tuples = <<>> THEN heap
  ELSE LET trackings_tuple == Head(tuples).tuple
           last_tracking == trackings_tuple[Len(trackings_tuple)]
       IN attribute_costs_to_last(
            IF last_tracking \in DOMAIN by_tracking
            THEN [heap EXCEPT
                    ![by_tracking[last_tracking]].tracked_cost = @ + Head(tuples).cost,
                    ![by_tracking[last_tracking]].non_reimbursed_trackings =
                       @ \ Elems(trackings_tuple)]
            ELSE heap,
            by_tracking, Tail(tuples))

\* fill_costs_new, lines 125-132: the loop over the tuples
RECURSIVE attribute_costs(_, _, _)
attribute_costs(heap, by_tracking, tuples) ==
  IF tuples = <<>> THEN heap
  ELSE LET trackings_tuple == Head(tuples).tuple
           first_tracking == trackings_tuple[1]
       IN attribute_costs(
            IF first_tracking \in DOMAIN by_tracking
            THEN [heap EXCEPT
                    ![by_tracking[first_tracking]].tracked_cost = @ + Head(tuples).cost,
                    ![by_tracking[first_tracking]].non_reimbursed_trackings =
                       @ \ Elems(trackings_tuple)]
            ELSE heap,
            by_tracking, Tail(tuples))

\* po_to_cost.get(po, 0.0)
po_cost(costs, po) == IF po \in DOMAIN costs THEN costs[po] ELSE 0

\* fill_costs_new, lines 135-139: the loop over clusters_by_tracking.values(),
\* one iteration per key of the dict
RECURSIVE add_po_costs(_, _, _, _)
add_po_costs(heap, by_tracking, keys, costs) ==
  IF keys = {} THEN heap
  ELSE LET k == CHOOSE t \in keys : TRUE
           pos == heap[by_tracking[k]].purchase_orders
       IN add_po_costs(
            [heap EXCEPT ![by_tracking[k]].tracked_cost =
               @ + SumOver([po \in pos |-> po_cost(costs, po)], pos)],
            by_tracking, keys \ {k}, costs)

\* fill_costs_new
fill_costs_new(heap, by_tracking, tuples, costs, groups) ==
  add_po_costs(
    attribute_costs(reset_costs(heap, by_tracking, groups), by_tracking, tuples),
    by_tracking, DOMAIN by_tracking, costs)

\* CancelledItemsRetriever.get_cancelled_items(): the orders with cancelled items
cancellations_by_order == {1}

\* fill_cancellations: the items are kept as the orders they were cancelled on
fill_cancellations(heap, list) ==
  [c \in DOMAIN heap |->
     IF c \in Elems(list)
     THEN [heap[c] EXCEPT !.cancelled_items = heap[c].orders \cap cancellations_by_order]
     ELSE heap[c]]

\* a fill_purchase_orders that replaces the cluster's purchase orders
add_purchase_orders_replace(cluster, to_po, groups) ==
  IF filtered_out(cluster, groups) THEN cluster
  ELSE [cluster EXCEPT !.purchase_orders =
          {to_po[t] : t \in cluster.trackings \cap DOMAIN to_po}]

\* fill_purchase_orders: the loop body for one cluster
add_purchase_orders(cluster, to_po, groups) ==
  IF filtered_out(cluster, groups) THEN cluster
  ELSE [cluster EXCEPT !.purchase_orders =
          @ \cup {to_po[t] : t \in cluster.trackings \cap DOMAIN to_po}]

\* fill_purchase_orders: the loop over all_clusters
RECURSIVE fill_purchase_orders(_, _, _, _)
fill_purchase_orders(heap, list, to_po, groups) ==
  IF list = <<>> THEN heap
  ELSE fill_purchase_orders(
         [heap EXCEPT ![Head(list)] = add_purchase_orders(heap[Head(list)], to_po, groups)],
         Tail(list), to_po, groups)

\* ------------------------------------------------------------ the inputs
\* Cluster(group): a fresh cluster with its identity and review flags
NewCluster(trackings, orders, group, flags) ==
  [trackings |-> trackings, orders |-> orders, group |-> group,
   purchase_orders |-> {}, non_reimbursed_trackings |-> {},
   expected_cost |-> 0, tracked_cost |-> 0, adjustment |-> 0, notes |-> <<>>,
   manual_override |-> flags[1], verified |-> flags[2], below_cost |-> flags[3],
   cancelled_items |-> {}]

\* the trackings of the clusters of all_clusters, in list order: non-empty and
\* pairwise disjoint, as update_clusters and merge_orders leave them.  The code
\* only tests trackings for equality, so the clusters are taken over consecutive
\* trackings: the first over 1..c1, the next over c1+1..c2, ... for the cuts c1 <
\* c2 < ... of the set; the trackings above the last cut are in no cluster.
CutLayout(cuts) ==
  LET cut(i) == CHOOSE c \in cuts : Cardinality({d \in cuts : d < c}) = i - 1
  IN [i \in 1..Cardinality(cuts) |->
        {t \in Trackings : t <= cut(i) /\ (i = 1 \/ t > cut(i - 1))}]

ClusterLayouts == {CutLayout(cuts) : cuts \in (SUBSET Trackings) \ {{}}}

\* a carrier tuple: trackings without repetition
TuplesOf(len) == {s \in [1..len -> Trackings] : \A i, j \in 1..len : i # j => s[i] # s[j]}

\* the tuples of one tracking and of two, and the tuples of every length
ShortTuples ==
  {<<t>> : t \in Trackings} \cup {p \in Trackings \X Trackings : p[1] # p[2]}

AllTuples == UNION {TuplesOf(len) : len \in 1..NumTrackings}

\* the dict trackings_to_cost: n distinct tuples in insertion order
DictsOf(n, Tuples, Costs) ==
  {d \in [1..n -> [tuple : Tuples, cost : Costs]] :
     \A i, j \in 1..n : i # j => d[i].tuple # d[j].tuple}

\* up to MaxTuples tuples of one or two trackings, or one tuple of any length
Dicts(Costs) ==
  UNION {DictsOf(n, ShortTuples, Costs) : n \in 0..MaxTuples}
    \cup {<<[tuple |-> t, cost |-> c]>> : t \in AllTuples, c \in Costs}

\* a row of the sheet, as clusters.from_row reads it
Rows(TrackingSets, OrderSets, POSets, Unpaid, Costs, Adjustments, Notes, Flags) ==
  {r \in [trackings : TrackingSets, orders : OrderSets, purchase_orders : POSets,
          non_reimbursed_trackings : Unpaid, tracked_cost : Costs,
          adjustment : Adjustments, notes : Notes,
          manual_override : BOOLEAN, verified : BOOLEAN, below_cost : BOOLEAN] :
     /\ r.non_reimbursed_trackings \subseteq r.trackings
     /\ <<r.manual_override, r.verified, r.below_cost>> \in Flags}

Snapshots(RowSet) == UNION {[1..n -> RowSet] : n \in 0..MaxSnapshot}

NoFlags == <<FALSE, FALSE, FALSE>>

InitWith(heap, dict, snapshot, pos, to_po, groups, costs, failing) ==
  /\ clusters = heap
  /\ all_clusters = [i \in DOMAIN heap |-> i]
  /\ clusters_by_tracking = <<>>
  /\ trackings_to_cost = dict
  /\ po_to_cost = pos
  /\ downloaded_clusters = snapshot
  /\ tracking_to_po = to_po
  /\ args_groups = groups
  /\ order_cost = costs
  /\ failing_orders = failing
  /\ pc = "fill_costs"
  /\ ti = 1
  /\ run = 1
  /\ absorbed = {}
  /\ initial = heap

\* ------------------------------------------------------------ the actions
\* reconcile_new, line 167
FillCosts ==
  /\ pc = "fill_costs"
  /\ clusters' = fill_costs(clusters, all_clusters, order_cost, failing_orders)
  /\ pc' = "override_pos_and_costs"
  /\ UNCHANGED <<all_clusters, clusters_by_tracking, ti, run, absorbed, inputs>>

\* reconcile_new, line 170
OverridePosAndCosts ==
  /\ pc = "override_pos_and_costs"
  /\ clusters' = override_pos_and_costs(clusters, all_clusters, downloaded_clusters)
  /\ pc' = "map_clusters_by_tracking"
  /\ UNCHANGED <<all_clusters, clusters_by_tracking, ti, run, absorbed, inputs>>

\* reconcile_new, line 182
MapClustersByTracking ==
  /\ pc = "map_clusters_by_tracking"
  /\ clusters_by_tracking' = map_clusters_by_tracking(clusters, all_clusters)
  /\ ti' = 1
  /\ pc' = IF trackings_to_cost = <<>> THEN "fill_costs_new" ELSE "merge"
  /\ UNCHANGED <<clusters, all_clusters, run, absorbed, inputs>>

\* one iteration of the loop of merge_by_trackings_tuples (line 187)
MergeTuple ==
  /\ pc = "merge"
  /\ ti <= Len(trackings_to_cost)
  /\ LET trackings_tuple == trackings_to_cost[ti].tuple
         resolved == cluster_list(clusters_by_tracking, trackings_tuple)
     IN IF skipped(clusters_by_tracking, trackings_tuple)
        THEN UNCHANGED <<clusters, clusters_by_tracking, absorbed>>
        ELSE /\ clusters' = merge_others(clusters, Head(resolved), Tail(resolved))
             /\ clusters_by_tracking' =
                  repoint(clusters_by_tracking, trackings_tuple, Head(resolved))
             /\ absorbed' = absorbed \cup merged_in(clusters, Head(resolved), Tail(resolved))
  /\ ti' = ti + 1
  /\ pc' = IF ti = Len(trackings_to_cost) THEN "fill_costs_new" ELSE "merge"
  /\ UNCHANGED <<all_clusters, run, inputs>>

\* reconcile_new, line 189
FillCostsNew ==
  /\ pc = "fill_costs_new"
  /\ clusters' = fill_costs_new(clusters, clusters_by_tracking, trackings_to_cost,
                                po_to_cost, args_groups)
  /\ pc' = "fill_cancellations"
  /\ UNCHANGED <<all_clusters, clusters_by_tracking, ti, run, absorbed, inputs>>

\* reconcile_new, line 191
FillCancellations ==
  /\ pc = "fill_cancellations"
  /\ clusters' = fill_cancellations(clusters, all_clusters)
  /\ pc' = "fill_purchase_orders"
  /\ UNCHANGED <<all_clusters, clusters_by_tracking, ti, run, absorbed, inputs>>

\* reconcile_new, lines 193-194
FillPurchaseOrders ==
  /\ pc = "fill_purchase_orders"
  /\ clusters' = fill_purchase_orders(clusters, all_clusters, tracking_to_po, args_groups)
  /\ pc' = "download_upload_clusters_new"
  /\ UNCHANGED <<all_clusters, clusters_by_tracking, ti, run, absorbed, inputs>>

\* reconcile_new, line 195: fill_adjustments, then the sort, then the upload
DownloadUploadClustersNew ==
  /\ pc = "download_upload_clusters_new"
  /\ clusters' = fill_adjustments(clusters, all_clusters, downloaded_clusters)
  /\ all_clusters' = sort(clusters', all_clusters)
  /\ pc' = "done"
  /\ UNCHANGED <<clusters_by_tracking, ti, run, absorbed, inputs>>

Next ==
  \/ FillCosts
  \/ OverridePosAndCosts
  \/ MapClustersByTracking
  \/ MergeTuple
  \/ FillCostsNew
  \/ FillCancellations
  \/ FillPurchaseOrders
  \/ DownloadUploadClustersNew

\* the clusters of a layout: cluster i holds order i + 1, and the first cluster
\* the orders given
ClustersOf(layout, first_orders, flags) ==
  [i \in DOMAIN layout |->
     NewCluster(layout[i], IF i = 1 THEN first_orders ELSE {i + 1}, "a", flags)]

\* the sheet of the merge runs: a row for tracking 1 alone or with tracking 2,
\* with a purchase order and any of its trackings not reimbursed
SheetRows ==
  Rows({{1}, {1, 2}}, {{1}}, {{1}}, SUBSET {1, 2}, {1}, {1}, {<<"a">>}, {NoFlags})

\* the run of reconcile_new over every layout of clusters and every dict of
\* co-shipment tuples; the sheet holds nothing or one row
Init ==
  \E layout \in ClusterLayouts, dict \in Dicts({1}),
     snapshot \in {<<>>} \cup {<<r>> : r \in SheetRows} :
    InitWith(ClustersOf(layout, {1}, NoFlags),
             dict, snapshot, [po \in {1} |-> 1], [t \in {1} |-> 2], {},
             [o \in Orders |-> 1], {})

Spec == Init /\ [][Next]_vars

\* the sheet for the review flags: rows with the trackings and orders of a
\* cluster or others, and with review flags that no cluster starts with
FlagRows ==
  Rows({{1}, {1, 2}, {NumTrackings}}, {{1}, {1, 2}}, {{}}, {{}}, {0}, {1}, {<<"a">>},
       {<<TRUE, FALSE, TRUE>>, <<FALSE, TRUE, FALSE>>})

\* the sheet for adjustment and notes: empty, blank, plain and padded notes
NoteRows ==
  Rows({{1}, {1, 2}}, {{1}}, {{}}, {{}}, {0}, {-1, MaxCost},
       {<<>>, <<" ">>, <<"a">>, <<" ", "b">>}, {NoFlags})

\* at most one tuple, which joins trackings 1 and 2
ImportDicts == {<<>>, <<[tuple |-> <<1, 2>>, cost |-> 1]>>}

\* clusters on which fill_adjustments finds none, one or several rows, with review
\* flags that are all clear or all set before the call
InitFlags ==
  \E layout \in ClusterLayouts, first_orders \in {{1}, {1, 2}},
     flags \in {NoFlags, <<TRUE, TRUE, TRUE>>},
     dict \in ImportDicts, snapshot \in Snapshots(FlagRows) :
    InitWith(ClustersOf(layout, first_orders, flags),
             dict, snapshot, [po \in {1} |-> 1], <<>>, {},
             [o \in Orders |-> 1], {})

InitNotes ==
  \E layout \in ClusterLayouts,
     dict \in ImportDicts, snapshot \in Snapshots(NoteRows) :
    InitWith(ClustersOf(layout, {1}, NoFlags),
             dict, snapshot, [po \in {1} |-> 1], <<>>, {},
             [o \in Orders |-> 1], {})

InitImport == InitFlags \/ InitNotes

\* reconcile_new over the sheets a reviewer may have left
SpecImport == InitImport /\ [][Next]_vars

\* merge_by_trackings_tuples called again, with the same dict, on the index and
\* the clusters its first run left
Remerge ==
  /\ pc = "fill_costs_new"
  /\ run = 1
  /\ run' = 2
  /\ ti' = 1
  /\ pc' = IF trackings_to_cost = <<>> THEN "fill_costs_new" ELSE "merge"
  /\ UNCHANGED <<clusters, all_clusters, clusters_by_tracking, absorbed, inputs>>

NextRemerge ==
  \/ FillCosts
  \/ OverridePosAndCosts
  \/ MapClustersByTracking
  \/ MergeTuple
  \/ Remerge

\* reconcile_new up to the merge, and then the merge a second time
SpecRemerge == Init /\ [][NextRemerge]_vars

\* the order costs: every order costs 1, or order o costs o
OrderCosts == {[o \in Orders |-> 1], [o \in Orders |-> o]}

\* reconcile_new when get_order_info raises for any set of orders
InitCosts ==
  \E layout \in ClusterLayouts, first_orders \in {{1}, {1, 2}},
     dict \in ImportDicts, costs \in OrderCosts, failing \in SUBSET Orders :
    InitWith(ClustersOf(layout, first_orders, NoFlags),
             dict, <<>>, [po \in {1} |-> 1], [t \in {1} |-> 2], {}, costs, failing)

SpecCosts == InitCosts /\ [][Next]_vars

\* the row that the previous run uploaded for a cluster, with the review flags
\* the reviewer then gave it
RowOf(cluster, flags) ==
  [trackings |-> cluster.trackings, orders |-> cluster.orders,
   purchase_orders |-> {}, non_reimbursed_trackings |-> {}, tracked_cost |-> 0,
   adjustment |-> 0, notes |-> <<>>,
   manual_override |-> flags[1], verified |-> flags[2], below_cost |-> flags[3]]

\* a sheet with a row for each of the first clusters of the list
SheetOf(heap, flags) == [i \in DOMAIN flags |-> RowOf(heap[i], flags[i])]

ReviewedRows(n) == 1..(IF n < MaxSnapshot THEN n ELSE MaxSnapshot)

\* no tuple, a payment for tracking 1 alone, or one for trackings 1 and 2
RankDicts ==
  {<<>>, <<[tuple |-> <<1>>, cost |-> MaxCost]>>, <<[tuple |-> <<1, 2>>, cost |-> 1]>>}

\* reconcile_new over clusters that a reviewer has flagged in every way
InitRank ==
  \E layout \in ClusterLayouts, costs \in OrderCosts, dict \in RankDicts :
    \E flags \in [ReviewedRows(Len(layout)) -> BOOLEAN \X BOOLEAN \X BOOLEAN] :
      InitWith(ClustersOf(layout, {1}, NoFlags), dict,
               SheetOf(ClustersOf(layout, {1}, NoFlags), flags),
               [po \in {1} |-> 1], <<>>, {}, costs, {})

SpecRank == InitRank /\ [][Next]_vars

\* the sheet with the purchase orders a reviewer entered: rows for tracking 1,
\* for trackings 1 and 2 and for the last tracking, with purchase order 1 or 2
PORows ==
  Rows({{1}, {1, 2}, {NumTrackings}}, {{1}}, {{1}, {2}}, {{}}, {1}, {0}, {<<>>}, {NoFlags})

\* tuples that chain trackings 1, 2 and the last one in either direction
ChainTuples == {<<1, 2>>, <<2, 1>>, <<NumTrackings, 1>>, <<2, NumTrackings>>}

PODicts == UNION {DictsOf(n, ChainTuples, {1}) : n \in 0..MaxTuples}

\* reconcile_new over sheets with purchase orders, with and without --groups
InitPOs ==
  \E layout \in ClusterLayouts, dict \in PODicts, snapshot \in Snapshots(PORows),
     groups \in {{}, {"b"}} :
    InitWith(ClustersOf(layout, {1}, NoFlags),
             dict, snapshot, [po \in {1} |-> 1], [t \in {2} |-> 3], groups,
             [o \in Orders |-> 1], {})

SpecPOs == InitPOs /\ [][Next]_vars

\* ------------------------------------------------------------ the claims
\* merge_by_trackings_tuples has returned
MergeDone ==
  pc \notin {"fill_costs", "override_pos_and_costs", "map_clusters_by_tracking", "merge"}

\* the clusters passed on after the merge: reconcile_new's lines 191-195
PassedOn ==
  pc \in {"fill_cancellations", "fill_purchase_orders", "download_upload_clusters_new", "done"}

\* C1: once merging completes, no two distinct clusters that are values of the
\* tracking -> cluster mapping have a tracking in common.
C1_Partition ==
  MergeDone =>
    \A c, d \in Range(clusters_by_tracking) :
      c # d => clusters[c].trackings \cap clusters[d].trackings = {}

\* the tuples of size > 1, and the trackings that were in a cluster before merging
BigTuples ==
  {trackings_to_cost[i].tuple : i \in {j \in 1..Len(trackings_to_cost) :
                                         Len(trackings_to_cost[j].tuple) > 1}}

InitiallyClustered == UNION {initial[c].trackings : c \in DOMAIN initial}

\* two tuples share a tracking, or share a cluster of before the merge
TuplesTouch(a, b) ==
  \E x \in Elems(a), y \in Elems(b) :
    x = y \/ \E c \in DOMAIN initial : {x, y} \subseteq initial[c].trackings

RECURSIVE ChainFrom(_)
ChainFrom(S) ==
  LET more == S \cup {b \in BigTuples : \E a \in S : TuplesTouch(a, b)}
  IN IF more = S THEN S ELSE ChainFrom(more)

Linked(t, u) ==
  \E a \in BigTuples : t \in Elems(a) /\ \E b \in ChainFrom({a}) : u \in Elems(b)

\* C3: after the merge, two trackings that were in clusters before it and that a
\* chain of tuples of size > 1 links map to the same cluster.
C3_ChainsMerged ==
  MergeDone =>
    \A t, u \in InitiallyClustered :
      Linked(t, u) => clusters_by_tracking[t] = clusters_by_tracking[u]

\* the identity sets of cluster c in heap new contain those in heap old
Grown(old, new, c) ==
  /\ old[c].trackings \subseteq new[c].trackings
  /\ old[c].orders \subseteq new[c].orders
  /\ old[c].purchase_orders \subseteq new[c].purchase_orders

\* C7: across every tuple step of the merge, every cluster's trackings, orders
\* and purchase_orders after the step contain those before it.
C7_MergeMonotone ==
  [][pc = "merge" => \A c \in DOMAIN clusters : Grown(clusters, clusters', c)]_vars

\* C7's case: a merge step has made a target take over the trackings and the
\* purchase orders of a cluster it absorbed
C7_Witness ==
  \E c \in DOMAIN clusters, a \in absorbed :
    /\ c # a
    /\ clusters[a].purchase_orders # {}
    /\ initial[c].trackings # clusters[c].trackings
    /\ clusters[a].trackings \subseteq clusters[c].trackings
    /\ clusters[a].purchase_orders \subseteq clusters[c].purchase_orders

\* C8: a cluster that the merge absorbed is the value of no entry of the mapping,
\* and is not in the list passed on to fill_cancellations, fill_purchase_orders
\* and download_upload_clusters_new.
C8_AbsorbedUnreferenced ==
  \A a \in absorbed :
    /\ a \notin Range(clusters_by_tracking)
    /\ PassedOn => a \notin Elems(all_clusters)

\* the identity sets of cluster c are the same in heaps old and new
SameIdentity(old, new, c) ==
  /\ old[c].trackings = new[c].trackings
  /\ old[c].orders = new[c].orders
  /\ old[c].purchase_orders = new[c].purchase_orders

\* C6: a second run of the merge over the same tuples changes no cluster's
\* trackings, orders or purchase_orders and no entry of the mapping.
C6_MergeIdempotent ==
  [][run = 2 =>
       /\ clusters_by_tracking' = clusters_by_tracking
       /\ \A c \in DOMAIN clusters : SameIdentity(clusters, clusters', c)]_vars

\* the cost of the tuples whose first tracking the mapping gives to cluster c
RECURSIVE TupleCostOf(_, _)
TupleCostOf(c, tuples) ==
  IF tuples = <<>> THEN 0
  ELSE LET first == Head(tuples).tuple[1]
       IN (IF first \in DOMAIN clusters_by_tracking /\ clusters_by_tracking[first] = c
           THEN Head(tuples).cost ELSE 0)
          + TupleCostOf(c, Tail(tuples))

\* the known cost of each purchase order of the set, each taken once
RECURSIVE POCostOf(_)
POCostOf(pos) ==
  IF pos = {} THEN 0
  ELSE LET po == CHOOSE x \in pos : TRUE
       IN (IF po \in DOMAIN po_to_cost THEN po_to_cost[po] ELSE 0) + POCostOf(pos \ {po})

\* C4: after the merge and fill_costs_new without a group filter, the tracked_cost
\* of every cluster of the mapping is the cost of the tuples whose first tracking
\* maps to it plus the cost of each of its purchase orders, counted once.
C4_TrackedCostSum ==
  (pc = "fill_cancellations" /\ args_groups = {}) =>
    \A c \in Range(clusters_by_tracking) :
      clusters[c].tracked_cost =
        TupleCostOf(c, trackings_to_cost) + POCostOf(clusters[c].purchase_orders)

\* C9: in every state of the pipeline, every cluster's non_reimbursed_trackings
\* is a subset of its trackings.
C9_NonReimbursedSubset ==
  \A c \in DOMAIN clusters :
    clusters[c].non_reimbursed_trackings \subseteq clusters[c].trackings

\* the rows of the sheet that have a tracking in common with cluster c
CandidateRows(c) ==
  {i \in 1..Len(downloaded_clusters) :
     \E t \in clusters[c].trackings : t \in downloaded_clusters[i].trackings}

\* cluster c has exactly one candidate row, of exactly its trackings and orders
Unchanged(c) ==
  /\ Cardinality(CandidateRows(c)) = 1
  /\ \A i \in CandidateRows(c) :
       /\ downloaded_clusters[i].trackings = clusters[c].trackings
       /\ downloaded_clusters[i].orders = clusters[c].orders

ReviewFlags(r) == <<r.manual_override, r.verified, r.below_cost>>

\* C2: fill_adjustments copies the three review flags from the one candidate row
\* whose trackings and orders equal the cluster's, and in every other case (no
\* candidate, several, or one that differs) leaves the cluster's flags as they were.
C2_OverrideSafety ==
  [][pc = "download_upload_clusters_new" =>
       \A c \in Elems(all_clusters) :
         IF Unchanged(c)
         THEN \A i \in CandidateRows(c) :
                ReviewFlags(clusters'[c]) = ReviewFlags(downloaded_clusters[i])
         ELSE ReviewFlags(clusters'[c]) = ReviewFlags(clusters[c])]_vars

\* C2's case: fill_adjustments has run; one cluster took flags from its row that it
\* did not have, and another kept its flags against a single candidate row that
\* carries other flags but not the cluster's exact trackings and orders
C2_Witness ==
  /\ pc = "done"
  /\ \E c \in Elems(all_clusters) :
       /\ Unchanged(c)
       /\ ReviewFlags(clusters[c]) # ReviewFlags(initial[c])
  /\ \E d \in Elems(all_clusters) :
       /\ Cardinality(CandidateRows(d)) = 1
       /\ ~Unchanged(d)
       /\ \A i \in CandidateRows(d) :
            ReviewFlags(downloaded_clusters[i]) # ReviewFlags(clusters[d])
       /\ ReviewFlags(clusters[d]) = ReviewFlags(initial[d])

\* C5: total_diff is 0 for a cluster with manual_override and tracked_cost +
\* adjustment - expected_cost for one without, whatever the cost fields are
\* (expected 100, tracked 40 with override gives 0; expected 30, tracked 25
\* without override gives -5).
C5_TotalDiff ==
  /\ \A c \in DOMAIN clusters :
       /\ clusters[c].manual_override => total_diff(clusters[c]) = 0
       /\ ~clusters[c].manual_override =>
            total_diff(clusters[c]) + clusters[c].expected_cost
              = clusters[c].tracked_cost + clusters[c].adjustment
  /\ total_diff([manual_override |-> TRUE, expected_cost |-> 100,
                 tracked_cost |-> 40, adjustment |-> 0]) = 0
  /\ total_diff([manual_override |-> FALSE, expected_cost |-> 30,
                 tracked_cost |-> 25, adjustment |-> 0]) = -5

\* C5's case: the sorted list holds a cluster with manual_override whose costs do
\* not balance, and one without manual_override whose costs do not balance
C5_Witness ==
  /\ pc = "done"
  /\ \E c \in Elems(all_clusters) :
       /\ clusters[c].manual_override
       /\ clusters[c].tracked_cost + clusters[c].adjustment # clusters[c].expected_cost
  /\ \E d \in Elems(all_clusters) :
       /\ ~clusters[d].manual_override
       /\ clusters[d].tracked_cost + clusters[d].adjustment # clusters[d].expected_cost

\* a note with a character that is not whitespace
NonBlank(note) == \E i \in 1..Len(note) : note[i] \notin Whitespace

\* the non-blank notes of the candidate rows of c among the first k rows, in row
\* order, with "; " between them
RECURSIVE NotesUpTo(_, _)
NotesUpTo(c, k) ==
  IF k = 0 THEN <<>>
  ELSE LET before == NotesUpTo(c, k - 1)
           note == downloaded_clusters[k].notes
       IN IF k \in CandidateRows(c) /\ NonBlank(note)
          THEN (IF before = <<>> THEN note ELSE before \o <<";", " ">> \o note)
          ELSE before

\* C10: after fill_adjustments, each cluster's adjustment is the sum of the
\* adjustments of all rows whose trackings intersect its own (0 when none does) and
\* its notes are the non-blank notes of exactly those rows, joined in row order.
C10_AdjustmentAndNotes ==
  pc = "done" =>
    \A c \in Elems(all_clusters) :
      /\ clusters[c].adjustment =
           SumOver([i \in CandidateRows(c) |-> downloaded_clusters[i].adjustment],
                   CandidateRows(c))
      /\ clusters[c].notes = NotesUpTo(c, Len(downloaded_clusters))

\* C10's case: a cluster with several candidate rows, whose identity therefore
\* changed, took a non-zero sum of adjustments and the two rows' notes joined
C10_Witness ==
  /\ pc = "done"
  /\ \E c \in Elems(all_clusters) :
       /\ Cardinality(CandidateRows(c)) > 1
       /\ ~Unchanged(c)
       /\ clusters[c].adjustment # 0
       /\ \E i, j \in CandidateRows(c) :
            /\ i < j
            /\ downloaded_clusters[i].notes # downloaded_clusters[j].notes
            /\ NonBlank(downloaded_clusters[i].notes)
            /\ NonBlank(downloaded_clusters[j].notes)
            /\ clusters[c].notes =
                 downloaded_clusters[i].notes \o <<";", " ">> \o downloaded_clusters[j].notes

\* C11: whatever orders fail to look up, fill_costs returns with every cluster's
\* expected_cost equal to the sum of the costs of exactly those of its orders
\* whose lookup succeeded.
C11_ExpectedCostBestEffort ==
  pc = "override_pos_and_costs" =>
    \A c \in Elems(all_clusters) :
      clusters[c].expected_cost = SumOver(order_cost, clusters[c].orders \ failing_orders)

\* C11's case: fill_costs has returned; one cluster has an order that failed and
\* one that did not and carries the cost of the latter, and a cluster after it in
\* the list has its full cost
C11_Witness ==
  /\ pc = "override_pos_and_costs"
  /\ \E i, j \in 1..Len(all_clusters) :
       /\ i < j
       /\ \E o, q \in clusters[all_clusters[i]].orders :
            /\ o \in failing_orders
            /\ q \notin failing_orders
            /\ clusters[all_clusters[i]].expected_cost = order_cost[q]
       /\ clusters[all_clusters[j]].orders \cap failing_orders = {}
       /\ clusters[all_clusters[j]].expected_cost > 0

\* the clusters that download_upload_clusters_new has sorted
Sorted == IF pc = "done" THEN Elems(all_clusters) ELSE {}

\* C12 as stated: when the second cluster is verified, compare(first, second) is
\* positive (the first is ordered after the second).
C12_VerifiedSecondPositive ==
  \A a, b \in Sorted :
    clusters[b].verified => compare(clusters[a], clusters[b]) > 0

\* C12 amended: when the second cluster is verified, compare(first, second) is
\* -1 (the comparator reports the first before the second).
C12_VerifiedSecondNegative ==
  \A a, b \in Sorted :
    clusters[b].verified => compare(clusters[a], clusters[b]) = -1

\* C12's case: the sorted list holds a verified cluster and, as first argument,
\* a verified one and one that is not
C12_Witness ==
  \E a, b, c \in Sorted :
    clusters[b].verified /\ clusters[a].verified /\ ~clusters[c].verified

\* C13: compare is a total preorder over the clusters: compare(a, a) = 0,
\* compare(a, b) < 0 exactly when compare(b, a) > 0, and compare(a, b) <= 0 with
\* compare(b, c) <= 0 implies compare(a, c) <= 0.
C13_TotalPreorder ==
  \A a, b, c \in Sorted :
    /\ compare(clusters[a], clusters[a]) = 0
    /\ compare(clusters[a], clusters[b]) < 0 <=> compare(clusters[b], clusters[a]) > 0
    /\ (compare(clusters[a], clusters[b]) <= 0 /\ compare(clusters[b], clusters[c]) <= 0)
         => compare(clusters[a], clusters[c]) <= 0

\* C15 as stated: when the second cluster is below_cost and not verified,
\* compare(first, second) is 0 for a verified first and positive for a first that
\* is not verified.
C15_BelowCostSecondPositive ==
  \A a, b \in Sorted :
    (~clusters[b].verified /\ clusters[b].below_cost) =>
      IF clusters[a].verified THEN compare(clusters[a], clusters[b]) = 0
      ELSE compare(clusters[a], clusters[b]) > 0

\* C15 amended: when the second cluster is below_cost and not verified,
\* compare(first, second) is 0 for a verified first and -1 for a first that is
\* not verified.
C15_BelowCostSecondNegative ==
  \A a, b \in Sorted :
    (~clusters[b].verified /\ clusters[b].below_cost) =>
      IF clusters[a].verified THEN compare(clusters[a], clusters[b]) = 0
      ELSE compare(clusters[a], clusters[b]) = -1

\* C15's case: the sorted list holds a second cluster that is below_cost and not
\* verified, a verified first one, and a first one that is neither verified nor
\* below_cost
C15_Witness ==
  \E a, b, c \in Sorted :
    /\ ~clusters[b].verified /\ clusters[b].below_cost
    /\ clusters[a].verified
    /\ ~clusters[c].verified /\ ~clusters[c].below_cost

\* C16: when the second cluster is neither verified nor below_cost,
\* compare(first, second) is positive exactly when total_diff(first) <
\* total_diff(second) and 0 otherwise, total_diff being 0 under manual_override.
C16_DiffRule ==
  \A a, b \in Sorted :
    (~clusters[b].verified /\ ~clusters[b].below_cost) =>
      LET diff(c) == IF clusters[c].manual_override THEN 0
                     ELSE clusters[c].tracked_cost + clusters[c].adjustment
                          - clusters[c].expected_cost
      IN IF diff(a) < diff(b) THEN compare(clusters[a], clusters[b]) > 0
         ELSE compare(clusters[a], clusters[b]) = 0

\* C16's case: against a second cluster that is neither verified nor below_cost,
\* the sorted list holds a first with a smaller diff, one with an equal diff, and
\* one whose costs do not balance but whose manual_override makes the diff 0
C16_Witness ==
  \E a, b, c, d \in Sorted :
    /\ ~clusters[b].verified /\ ~clusters[b].below_cost
    /\ compare(clusters[a], clusters[b]) > 0
    /\ c # b /\ compare(clusters[c], clusters[b]) = 0
    /\ clusters[d].manual_override
    /\ clusters[d].tracked_cost + clusters[d].adjustment < clusters[d].expected_cost
    /\ total_diff(clusters[b]) >= 0
    /\ compare(clusters[d], clusters[b]) = 0

\* C14: fill_costs_new adds each tuple's cost to the tracked_cost of exactly the
\* cluster that the mapping gives for the tuple's first tracking, and to no
\* cluster when the first tracking is not a key; afterwards that cluster's
\* non_reimbursed_trackings holds none of the tuple's trackings.  (The rest of
\* tracked_cost is what the reset and the purchase order loop leave.)
C14_TupleAttribution ==
  [][pc = "fill_costs_new" =>
       LET rest == add_po_costs(reset_costs(clusters, clusters_by_tracking, args_groups),
                                clusters_by_tracking, DOMAIN clusters_by_tracking,
                                po_to_cost)
       IN /\ \A c \in DOMAIN clusters :
               clusters'[c].tracked_cost =
                 rest[c].tracked_cost + TupleCostOf(c, trackings_to_cost)
          /\ \A i \in 1..Len(trackings_to_cost) :
               LET trackings_tuple == trackings_to_cost[i].tuple
               IN trackings_tuple[1] \in DOMAIN clusters_by_tracking =>
                    clusters'[clusters_by_tracking[trackings_tuple[1]]]
                      .non_reimbursed_trackings \cap Elems(trackings_tuple) = {}]_vars

\* C14's case: fill_costs_new has run over a tuple of two trackings that two
\* clusters held before the merge, whose cost went to the cluster of its first
\* tracking and not to the other, and over a tuple whose first tracking is no key
C14_Witness ==
  /\ pc = "fill_cancellations"
  /\ \E i, j \in 1..Len(trackings_to_cost) :
       LET trackings_tuple == trackings_to_cost[i].tuple
           X == clusters_by_tracking[trackings_tuple[1]]
       IN /\ Len(trackings_tuple) = 2
          /\ trackings_tuple[1] \in DOMAIN clusters_by_tracking
          /\ trackings_to_cost[j].tuple[1] \notin DOMAIN clusters_by_tracking
          /\ clusters[X].tracked_cost = trackings_to_cost[i].cost
          /\ Elems(trackings_tuple) \subseteq clusters[X].trackings
          /\ \E Y \in DOMAIN clusters :
               /\ Y # X
               /\ trackings_tuple[2] \in initial[Y].trackings
               /\ clusters[Y].tracked_cost = 0

\* C17: the merge is complete before any cost is folded: once fill_costs has
\* computed expected_cost (and, later, fill_costs_new tracked_cost), no step
\* changes the trackings or the orders of any cluster.
C17_MergeBeforeCosts ==
  [][pc # "fill_costs" =>
       \A c \in DOMAIN clusters :
         /\ clusters'[c].trackings = clusters[c].trackings
         /\ clusters'[c].orders = clusters[c].orders]_vars

\* the tuple that the next step of the merge processes, the trackings of it that
\* are keys of the mapping, and the clusters they resolve to
NextTuple == trackings_to_cost[ti].tuple

Resolvable == {i \in 1..Len(NextTuple) : NextTuple[i] \in DOMAIN clusters_by_tracking}

ResolvedClusters == {clusters_by_tracking[NextTuple[i]] : i \in Resolvable}

\* C18: a merge step over a tuple of size > 1 with a tracking in the mapping takes
\* as target the cluster of the first tracking of the tuple that is in the
\* mapping; after the step the target's trackings and orders contain those of
\* every cluster the tuple resolved to, and every tracking of the tuple maps to
\* the target.
C18_FirstSeenWins ==
  [][(pc = "merge" /\ Len(NextTuple) > 1 /\ Resolvable # {}) =>
       LET first == CHOOSE i \in Resolvable : \A j \in Resolvable : i <= j
           target == clusters_by_tracking[NextTuple[first]]
       IN /\ \A c \in ResolvedClusters :
               /\ clusters[c].trackings \subseteq clusters'[target].trackings
               /\ clusters[c].orders \subseteq clusters'[target].orders
          /\ \A c \in DOMAIN clusters : c # target => clusters'[c] = clusters[c]
          /\ \A t \in Elems(NextTuple) :
               /\ t \in DOMAIN clusters_by_tracking'
               /\ clusters_by_tracking'[t] = target]_vars

\* C18's case: the merge has processed a tuple whose first tracking was in no
\* cluster; the cluster of its second tracking was the target, absorbed the
\* cluster of the third, and is what all three trackings map to
C18_Witness ==
  /\ pc = "fill_costs_new"
  /\ Len(trackings_to_cost) = 1
  /\ LET trackings_tuple == trackings_to_cost[1].tuple
     IN /\ Len(trackings_tuple) = 3
        /\ trackings_tuple[1] \notin InitiallyClustered
        /\ \E target \in DOMAIN clusters, other \in absorbed :
             /\ target # other
             /\ trackings_tuple[2] \in initial[target].trackings
             /\ trackings_tuple[3] \in initial[other].trackings
             /\ initial[other].trackings \subseteq clusters[target].trackings
             /\ initial[other].orders \subseteq clusters[target].orders
             /\ \A t \in Elems(trackings_tuple) : clusters_by_tracking[t] = target

\* C19: a merge step over a tuple of length 1, or over a tuple none of whose
\* trackings is in the mapping, leaves the mapping and every cluster's trackings,
\* orders and purchase_orders unchanged; a step over any other tuple merges
\* exactly the clusters of the tuple's resolvable trackings: one of them ends
\* with the union of their trackings and of their orders, and no other cluster
\* changes.
C19_NoOpTuples ==
  [][pc = "merge" =>
       IF Len(NextTuple) = 1 \/ Resolvable = {}
       THEN /\ clusters_by_tracking' = clusters_by_tracking
            /\ \A c \in DOMAIN clusters : SameIdentity(clusters, clusters', c)
       ELSE \E target \in ResolvedClusters :
              /\ clusters'[target].trackings =
                   UNION {clusters[c].trackings : c \in ResolvedClusters}
              /\ clusters'[target].orders =
                   UNION {clusters[c].orders : c \in ResolvedClusters}
              /\ \A c \in DOMAIN clusters :
                   c # target => SameIdentity(clusters, clusters', c)]_vars

\* C19's case: the merge has processed a tuple of one tracking that a cluster
\* holds and a tuple of two trackings that no cluster holds, and the mapping and
\* the clusters are those of before the merge
C19_Witness ==
  /\ pc = "fill_costs_new"
  /\ Len(trackings_to_cost) = 2
  /\ \E i, j \in 1..2 :
       /\ Len(trackings_to_cost[i].tuple) = 1
       /\ trackings_to_cost[i].tuple[1] \in InitiallyClustered
       /\ Len(trackings_to_cost[j].tuple) = 2
       /\ Elems(trackings_to_cost[j].tuple) \cap InitiallyClustered = {}
  /\ DOMAIN clusters_by_tracking = InitiallyClustered
  /\ \A c \in DOMAIN clusters : SameIdentity(initial, clusters, c)

\* the purchase orders of the rows of the sheet that share a tracking with
\* cluster c as it was before the merge
ManualPOs(c) ==
  UNION {downloaded_clusters[i].purchase_orders :
           i \in {j \in 1..Len(downloaded_clusters) :
                    downloaded_clusters[j].trackings \cap initial[c].trackings # {}}}

\* C20: override_pos_and_costs sets each cluster's purchase_orders to the union
\* of the purchase_orders of the rows whose trackings intersect it, and after
\* every later stage each purchase order of that union is in the
\* purchase_orders of every cluster that holds those trackings.
C20_ManualPOsSurvive ==
  pc \notin {"fill_costs", "override_pos_and_costs"} =>
    \A c \in DOMAIN initial :
      /\ pc = "map_clusters_by_tracking" => clusters[c].purchase_orders = ManualPOs(c)
      /\ \A d \in Elems(all_clusters) :
           initial[c].trackings \subseteq clusters[d].trackings =>
             ManualPOs(c) \subseteq clusters[d].purchase_orders

\* C20's case: the run is over; a cluster whose purchase orders came from two
\* rows absorbed a cluster that had purchase orders from the sheet too, was
\* given a further one by fill_purchase_orders, and holds them all
C20_Witness ==
  /\ pc = "done"
  /\ \E d \in Elems(all_clusters), c \in absorbed :
       /\ c # d
       /\ initial[c].trackings \subseteq clusters[d].trackings
       /\ Cardinality(ManualPOs(d)) > 1
       /\ ManualPOs(c) # {}
       /\ ManualPOs(c) \cup ManualPOs(d) \subseteq clusters[d].purchase_orders
       /\ clusters[d].purchase_orders # ManualPOs(c) \cup ManualPOs(d)

\* C21: in every state while and after the merge runs, each key of the
\* tracking -> cluster mapping is in the trackings of the cluster it maps to,
\* also when a tuple holds trackings that were in no cluster before the merge.
C21_IndexConsistent ==
  \A t \in DOMAIN clusters_by_tracking :
    t \in clusters[clusters_by_tracking[t]].trackings

====
